---- MODULE Spec2Model ----
(***************************************************************************)
(* Model of the authentication engine of google_auth_proxy:                *)
(*   - HtpasswdProxy (htpasswd_proxy.go): Validate with its credential     *)
(*     cache, run by concurrent goroutines;                                *)
(*   - OauthProxy.ServeHTTP (oauthproxy.go): the per-request dispatch.     *)
(* Strings are TLA+ strings; times are integer clock ticks.                *)
(***************************************************************************)
EXTENDS Integers, Sequences, FiniteSets, TLC

(* ------------------------------ bounds --------------------------------- *)
\* clock ticks in one time.Minute (granularity of the modelled clock)
TicksPerMinute == 2
\* the clock stops advancing after this many ticks
MaxTicks == 3
\* number of goroutines that call Validate concurrently
NumProcs == 2
\* number of Validate calls made in one sequential run
MaxCalls == 3
\* number of Validate calls made in one concurrent run
MaxConcCalls == 2
\* clock ticks in one second of Unix time, for the cookie arithmetic of
\* ServeHTTP (its clock is finer than the whole seconds Unix() keeps)
TicksPerSecond == 2

(* ------------------------- program constants --------------------------- *)
\* len(h.cache.m) > 100
MaxCacheLen == 100
\* the zero time.Time a lookup of a missing key yields
ZeroTime == 0

Minute == TicksPerMinute
\* the process starts long after the zero time
StartTime == ZeroTime + Minute
MaxTime == StartTime + MaxTicks
NoTime == 0 - 1

Procs == 1..NumProcs
NoProc == 0

Users == {"a", "a:b"}
Passwords == {"c", "b:c"}
Pairs == Users \X Passwords
NoPair == <<"", "">>

\* user + ":" + password
CacheKey(user, password) == user \o ":" \o password

\* Responses of http.DefaultClient.Do:
\*   "200", "401"   a response, err == nil
\*   "redirect"     CheckRedirect failed: err != nil with a non-nil response
\*   "error"        transport failure: err != nil and res == nil
ProbeOutcomes == {"200", "401", "redirect", "error"}

VARIABLES
  cache_m,     \* h.cache.m as a function key -> time (<< >> while nil)
  cache_nil,   \* h.cache.m == nil
  cache_mu,    \* holder of h.cache.Mutex, NoProc when free
  now,         \* time.Now()
  val,         \* per goroutine: the frame of its Validate call
  lastTrue,    \* history: pair -> time its latest Validate returned true
               \* (the time of the write, for a call that wrote the entry)
  writer,      \* history: key -> pair whose put wrote the entry
  ncalls,      \* history: number of Validate calls made so far
  cfg,         \* the OauthProxy fields set by NewOauthProxy and the options
  req,         \* the *http.Request being served
  rq           \* the frame of ServeHTTP: its locals, the response written so
               \* far, and the calls it has made

cacheVars == <<cache_m, cache_nil, cache_mu, now, val, lastTrue, writer, ncalls>>
serveVars == <<cfg, req, rq>>
vars == <<cache_m, cache_nil, cache_mu, now, val, lastTrue, writer, ncalls, cfg, req, rq>>

\* the frame of a goroutine that is not inside Validate
IdleFrame ==
  [pc |-> "idle", user |-> "", password |-> "", t |-> ZeroTime,
   res |-> "none", ret |-> FALSE, probes |-> 0,
   nowRead |-> NoTime, prevTrue |-> NoTime,
   entryAtCall |-> NoTime, resetSeen |-> FALSE, over |-> FALSE,
   by |-> NoPair, freshAtReset |-> FALSE]

Len_m == Cardinality(DOMAIN cache_m)

\* h.cache.m[key], the zero time when the key is missing
Lookup(m, key) == IF key \in DOMAIN m THEN m[key] ELSE ZeroTime

\* m[key] = t
MapPut(m, key, t) == [k \in (DOMAIN m) \cup {key} |-> IF k = key THEN t ELSE m[k]]

EmptyMap == << >>

\* an empty-or-filled cache as left by n successful validations of n distinct
\* users made at StartTime
FillerKey(i) == CacheKey("f" \o ToString(i), "x")
FillerMap(n) == [k \in {FillerKey(i) : i \in 1..n} |-> StartTime]
InitFill == {MaxCacheLen - 1, MaxCacheLen}

PairOf(p) == <<val[p].user, val[p].password>>
KeyOf(p) == CacheKey(val[p].user, val[p].password)

InitCache ==
  /\ \/ cache_nil = TRUE /\ cache_m = EmptyMap
     \/ \E n \in InitFill : cache_nil = FALSE /\ cache_m = FillerMap(n)
  /\ cache_mu = NoProc
  /\ now = StartTime
  /\ val = [p \in Procs |-> IdleFrame]
  /\ lastTrue = [q \in Pairs |-> NoTime]
  /\ writer = [k \in {} |-> NoPair]
  /\ ncalls = 0

(* --------------------------- HtpasswdProxy ----------------------------- *)

\* a goroutine enters Validate(user, password); a run makes at most limit calls
ValidateCall(p, user, password, limit) ==
  /\ val[p].pc = "idle"
  /\ ncalls < limit
  /\ ncalls' = ncalls + 1
  /\ val' = [val EXCEPT ![p] =
       [IdleFrame EXCEPT !.pc = "cv_lock", !.user = user, !.password = password,
          !.prevTrue = lastTrue[<<user, password>>],
          !.entryAtCall = IF CacheKey(user, password) \in DOMAIN cache_m
                          THEN cache_m[CacheKey(user, password)] ELSE NoTime]]
  /\ UNCHANGED <<cache_m, cache_nil, cache_mu, now, lastTrue, writer>>
  /\ UNCHANGED serveVars

\* cachedValidate: h.cache.Lock()
cachedValidateLock(p) ==
  /\ val[p].pc = "cv_lock"
  /\ cache_mu = NoProc
  /\ cache_mu' = p
  /\ val' = [val EXCEPT ![p].pc = "cv_body"]
  /\ UNCHANGED <<cache_m, cache_nil, now, lastTrue, writer, ncalls>>
  /\ UNCHANGED serveVars

\* mutant: the size test is off by one
NeedsReset_Late == cache_nil \/ Len_m > MaxCacheLen + 1

\* the condition under which cachedValidate replaces the map
NeedsReset == cache_nil \/ Len_m > MaxCacheLen

\* mutant: the reset keeps the entries that have not expired
AfterReset_KeepFresh(m) ==
  IF NeedsReset THEN [k \in {j \in DOMAIN m : m[j] + Minute > now} |-> m[k]] ELSE m

\* the map cachedValidate looks the key up in
AfterReset(m) == IF NeedsReset THEN EmptyMap ELSE m

\* cachedValidate: the reset of the map and the lookup, under the lock
cachedValidateBody(p) ==
  /\ val[p].pc = "cv_body"
  /\ cache_mu = p
  /\ cache_m' = AfterReset(cache_m)
  /\ cache_nil' = FALSE
  /\ LET wiped == (DOMAIN cache_m) \ (DOMAIN cache_m') # {}
         key == KeyOf(p)
     IN /\ val' = [q \in Procs |->
             IF q = p
             THEN [val[q] EXCEPT !.pc = "cv_unlock",
                     !.t = Lookup(cache_m', key),
                     !.by = IF key \in DOMAIN cache_m' THEN writer[key] ELSE NoPair,
                     !.resetSeen = @ \/ wiped,
                     !.over = Len_m > MaxCacheLen,
                     !.freshAtReset = /\ wiped
                                      /\ key \in DOMAIN cache_m
                                      /\ cache_m[key] + Minute > now]
             ELSE [val[q] EXCEPT !.resetSeen = @ \/ (wiped /\ val[q].pc # "idle")]]
        /\ lastTrue' = IF wiped THEN [q \in Pairs |-> NoTime] ELSE lastTrue
        /\ writer' = [k \in (DOMAIN writer) \cap (DOMAIN cache_m') |-> writer[k]]
  /\ UNCHANGED <<cache_mu, now, ncalls>>
  /\ UNCHANGED serveVars

\* mutant: cachedValidate returns without h.cache.Unlock(), so the mutex
\* stays held during the probe
cachedValidateUnlock_Held(p) ==
  /\ val[p].pc = "cv_unlock"
  /\ cache_mu = p
  /\ val' = [val EXCEPT ![p].pc = "cv_ret"]
  /\ UNCHANGED <<cache_m, cache_nil, cache_mu, now, lastTrue, writer, ncalls>>
  /\ UNCHANGED serveVars

\* cachedValidate: h.cache.Unlock()
cachedValidateUnlock(p) ==
  /\ val[p].pc = "cv_unlock"
  /\ cache_mu = p
  /\ cache_mu' = NoProc
  /\ val' = [val EXCEPT ![p].pc = "cv_ret"]
  /\ UNCHANGED <<cache_m, cache_nil, now, lastTrue, writer, ncalls>>
  /\ UNCHANGED serveVars

\* mutant: an entry expires one tick early
IsFresh_Early(t, clock) == t + Minute > clock + 1

\* mutant: an entry is still honoured at the boundary
IsFresh_Inclusive(t, clock) == t + Minute >= clock

\* t.Add(time.Minute).After(time.Now())
IsFresh(t, clock) == t + Minute > clock

\* cachedValidate returns; Validate returns true on a hit
cachedValidateReturn(p) ==
  /\ val[p].pc = "cv_ret"
  /\ IF IsFresh(val[p].t, now)
     THEN /\ val' = [val EXCEPT ![p].pc = "done", ![p].ret = TRUE, ![p].nowRead = now]
          /\ lastTrue' = IF PairOf(p) \in Pairs
                         THEN [lastTrue EXCEPT ![PairOf(p)] = now] ELSE lastTrue
     ELSE /\ val' = [val EXCEPT ![p].pc = "probe", ![p].nowRead = now]
          /\ UNCHANGED lastTrue
  /\ UNCHANGED <<cache_m, cache_nil, cache_mu, now, writer, ncalls>>
  /\ UNCHANGED serveVars

\* http.NewRequest, SetBasicAuth, http.DefaultClient.Do: the probe leaves
DoProbe(p) ==
  /\ val[p].pc = "probe"
  /\ val' = [val EXCEPT ![p].pc = "await", ![p].probes = @ + 1]
  /\ UNCHANGED <<cache_m, cache_nil, cache_mu, now, lastTrue, writer, ncalls>>
  /\ UNCHANGED serveVars

\* mutant: every response is cached, whatever its status
AfterProbe_CacheAny(outcome) ==
  CASE outcome = "error" -> "panicked"
    [] OTHER -> "put_lock"

\* what Validate does with the outcome of Do, up to the call of
\* putValidateCache
AfterProbe(outcome) ==
  CASE outcome = "error" -> "panicked"     \* res == nil: res.Body.Close()
    [] outcome = "200" -> "put_lock"
    [] OTHER -> "done"                     \* return false

\* Do returns
ProbeResponse(p, outcome) ==
  /\ val[p].pc = "await"
  /\ val' = [val EXCEPT ![p].pc = AfterProbe(outcome), ![p].res = outcome,
                        ![p].ret = FALSE]
  /\ UNCHANGED <<cache_m, cache_nil, cache_mu, now, lastTrue, writer, ncalls>>
  /\ UNCHANGED serveVars

\* putValidateCache: h.cache.Lock()
putValidateCacheLock(p) ==
  /\ val[p].pc = "put_lock"
  /\ cache_mu = NoProc
  /\ cache_mu' = p
  /\ val' = [val EXCEPT ![p].pc = "put_body"]
  /\ UNCHANGED <<cache_m, cache_nil, now, lastTrue, writer, ncalls>>
  /\ UNCHANGED serveVars

\* the map after h.cache.m[user+":"+password] = time.Now()
PutEntry(m, user, password, clock) == MapPut(m, CacheKey(user, password), clock)

\* putValidateCache: the write; a write to a nil map panics
putValidateCacheBody(p) ==
  /\ val[p].pc = "put_body"
  /\ cache_mu = p
  /\ IF cache_nil
     THEN /\ val' = [val EXCEPT ![p].pc = "panicked"]
          /\ UNCHANGED <<cache_m, writer>>
     ELSE /\ cache_m' = PutEntry(cache_m, val[p].user, val[p].password, now)
          /\ writer' = MapPut(writer, KeyOf(p), PairOf(p))
          /\ val' = [val EXCEPT ![p].pc = "put_unlock"]
  /\ UNCHANGED <<cache_nil, cache_mu, now, lastTrue, ncalls>>
  /\ UNCHANGED serveVars

\* putValidateCache: h.cache.Unlock(); Validate returns true
putValidateCacheUnlock(p) ==
  /\ val[p].pc = "put_unlock"
  /\ cache_mu = p
  /\ cache_mu' = NoProc
  /\ val' = [val EXCEPT ![p].pc = "done", ![p].ret = TRUE]
  /\ lastTrue' = IF PairOf(p) \in Pairs /\ KeyOf(p) \in DOMAIN cache_m
                 THEN [lastTrue EXCEPT ![PairOf(p)] = cache_m[KeyOf(p)]]
                 ELSE lastTrue
  /\ UNCHANGED <<cache_m, cache_nil, now, writer, ncalls>>
  /\ UNCHANGED serveVars

\* the caller takes the result of Validate
ValidateReturn(p) ==
  /\ val[p].pc = "done"
  /\ val' = [val EXCEPT ![p] = IdleFrame]
  /\ UNCHANGED <<cache_m, cache_nil, cache_mu, now, lastTrue, writer, ncalls>>
  /\ UNCHANGED serveVars

\* the clock advances
Tick ==
  /\ now < MaxTime
  /\ now' = now + 1
  /\ UNCHANGED <<cache_m, cache_nil, cache_mu, val, lastTrue, writer, ncalls>>
  /\ UNCHANGED serveVars

(* ----------------------------- OauthProxy ------------------------------ *)

robotsPath == "/robots.txt"
pingPath == "/ping"
signInPath == "/oauth2/sign_in"
oauthStartPath == "/oauth2/start"
oauthCallbackPath == "/oauth2/callback"

\* the request paths drawn
Paths ==
  {robotsPath, pingPath, signInPath, oauthStartPath, oauthCallbackPath,
   "/static", "/app"}

\* a header or parameter that was not set
Unset == "<unset>"

\* a compiled regexp is the set of the drawn paths it matches
MatchString(u, path) == path \in u

\* the values of opts.CompiledRegex drawn: none, or two patterns
SkipConfigs ==
  { << >>, << {"/static", robotsPath}, {pingPath, oauthCallbackPath} >> }

\* CookieExpire, in clock ticks
CookieExpireTicks == 4

\* the configurations drawn
Configs ==
  [CookieExpire : {CookieExpireTicks},
   CookieRefresh : {0, 1},
   HtpasswdValidator : BOOLEAN,      \* p.HtpasswdValidator != nil
   PassBasicAuth : BOOLEAN,
   PassAccessToken : BOOLEAN,
   compiledRegex : SkipConfigs]

\* the payload of a session cookie: the fields of a session, or bytes that
\* do not parse, or the empty string
EmptyValue == [form |-> "empty", email |-> "", user |-> "", token |-> ""]
CookieValues ==
  { [form |-> "session", email |-> "e@x", user |-> "e", token |-> "tok"],
    [form |-> "session", email |-> "", user |-> "a", token |-> ""],
    [form |-> "garbage", email |-> "", user |-> "", token |-> ""] }

NoCookie == [present |-> FALSE, sigOk |-> FALSE, ts |-> ZeroTime, value |-> EmptyValue]

\* the age after which validateCookie rejects a signed cookie
MaxCookieAge == CookieExpireTicks + TicksPerSecond

\* the times at which ServeHTTP runs: late enough for every cookie age, and
\* both on and off a whole second
ServeStart == MaxTime + MaxCookieAge
ServeTimes == {ServeStart, ServeStart + 1}

\* mutant: the two times are compared as they are, fractions included
Unix_Exact(t) == t

\* time.Time.Unix(): whole seconds, the fraction dropped
Unix(t) == t \div TicksPerSecond

\* the session cookies a request may carry at time clock: none, one whose
\* signature does not verify, signed OAuth sessions of every age, and a
\* signed sign-in session and a signed unparsable payload of one age
CookiesAt(clock) ==
  {NoCookie}
    \cup [present : {TRUE}, sigOk : {FALSE}, ts : {clock - 1},
          value : {v \in CookieValues : v.email # ""}]
    \cup [present : {TRUE}, sigOk : {TRUE}, ts : (clock - MaxCookieAge)..clock,
          value : {v \in CookieValues : v.email # ""}]
    \cup [present : {TRUE}, sigOk : {TRUE}, ts : {clock - 1},
          value : {v \in CookieValues : v.email = ""}]

\* base64.StdEncoding.DecodeString on the encodings drawn
Base64Table ==
  [x \in {"YTpj", "YTpiOmM=", "YWM="} |->
     CASE x = "YTpj" -> "a:c"
       [] x = "YTpiOmM=" -> "a:b:c"
       [] x = "YWM=" -> "ac"]
DecodeString(x) ==
  IF x \in DOMAIN Base64Table
  THEN [text |-> Base64Table[x], err |-> FALSE]
  ELSE [text |-> "", err |-> TRUE]

\* the Authorization headers drawn
AuthHeaders == {"", "Bearer YTpj", "Basic !!", "Basic YWM=", "Basic YTpj", "Basic YTpiOmM="}

\* strings.SplitN(s, sep, 2)
SplitN2(s, sep) ==
  LET idx == {i \in 1..Len(s) : SubSeq(s, i, i) = sep}
  IN IF idx = {} THEN <<s>>
     ELSE LET i == CHOOSE j \in idx : \A k \in idx : j <= k
          IN <<SubSeq(s, 1, i - 1), SubSeq(s, i + 1, Len(s))>>

\* strings.HasPrefix(s, "/")
HasSlashPrefix(s) == Len(s) >= 1 /\ SubSeq(s, 1, 1) = "/"

\* the parameters of a request (query and body), as req.Form holds them
\* after ParseForm
NoForm == [rd |-> "", username |-> "", password |-> "", error |-> "",
           code |-> "", state |-> ""]
SignInForms ==
  {[NoForm EXCEPT !.rd = rd, !.username = u, !.password = "c"] :
     rd \in {"", "/app", "//evil/x"}, u \in {"", "a", "a:b"}}
StartForms ==
  {[NoForm EXCEPT !.rd = rd] : rd \in {"", "/app", "//evil/x", "http://evil/x"}}
CallbackForms ==
  {[NoForm EXCEPT !.error = er, !.code = c, !.state = st] :
     er \in {"", "access_denied"}, c \in {"", "c0de"},
     st \in {"", "/app", "//evil/x"}}

\* the three paths of the OAuth flow
OauthPaths == {signInPath, oauthStartPath, oauthCallbackPath}

\* the parameters drawn for a path
FormsFor(path) ==
  IF path = signInPath THEN SignInForms
  ELSE IF path = oauthStartPath THEN StartForms
  ELSE IF path = oauthCallbackPath THEN CallbackForms
  ELSE {NoForm}

\* the requests drawn. On the paths behind authentication: a GET with every
\* cookie and Authorization header. On the paths of the OAuth flow: a GET
\* (and for the sign-in form a POST) with every parameter set, well-formed
\* or with a malformed pair next to the parameters (badForm: ParseForm
\* returns an error), without credentials or with a cookie and a Basic header
Requests(clock) ==
  [path : Paths \ OauthPaths, method : {"GET"}, cookie : CookiesAt(clock),
   authorization : AuthHeaders, form : {NoForm}, badForm : {FALSE}]
    \cup UNION { [path : {pa}, method : IF pa = signInPath THEN {"GET", "POST"}
                                        ELSE {"GET"},
                  cookie : {NoCookie,
                            [present |-> TRUE, sigOk |-> TRUE, ts |-> clock - 1,
                             value |-> CHOOSE v \in CookieValues : v.email # ""]},
                  authorization : {"", "Basic YTpj"},
                  form : FormsFor(pa), badForm : BOOLEAN] : pa \in OauthPaths }

NoRequest == [path |-> "", method |-> "", cookie |-> NoCookie, authorization |-> "",
              form |-> NoForm, badForm |-> FALSE]

\* the outcome of p.HtpasswdValidator(user, password) when it is
\* HtpasswdProxy.Validate: a cache hit, or what follows the probe
ValidateResult(hit, outcome) ==
  IF hit THEN "true"
  ELSE CASE AfterProbe(outcome) = "panicked" -> "panic"
         [] AfterProbe(outcome) = "put_lock" -> "true"
         [] OTHER -> "false"
ValidateResults == {ValidateResult(h, o) : h \in BOOLEAN, o \in ProbeOutcomes}

NoHeaders == [basicUser |-> Unset, xUser |-> Unset, xEmail |-> Unset, xToken |-> Unset]

\* the frame of a goroutine that is not inside ServeHTTP
IdleRq ==
  [pc |-> "idle", branch |-> "", ok |-> FALSE, user |-> "", email |-> "",
   access_token |-> "", pcOk |-> "none", baOk |-> "none",
   status |-> 0, page |-> "", title |-> "", location |-> "",
   loginState |-> Unset, upstream |-> FALSE, hdr |-> NoHeaders,
   gapAuth |-> Unset, cookies |-> << >>, calls |-> << >>, form |-> NoForm]

\* one hour, for the expiry of a cleared cookie
Hour == 60 * Minute

\* signedCookieValue: the value with the time of signing and a signature
\* over both
signedCookieValue(value, clock) == [value |-> value, signed |-> TRUE, ts |-> clock]

\* MakeCookie: the Set-Cookie written; a non-empty value is signed
MakeCookie(value, expiration, clock) ==
  LET sv == IF value.form # "empty" THEN signedCookieValue(value, clock)
            ELSE [value |-> value, signed |-> FALSE, ts |-> ZeroTime]
  IN [value |-> sv.value, signed |-> sv.signed, ts |-> sv.ts,
      expires |-> clock + expiration]

\* ClearCookie
ClearCookie(clock) == MakeCookie(EmptyValue, 0 - Hour, clock)

\* validateCookie: the payload and timestamp of a cookie whose signature
\* verifies and whose timestamp is inside the age window; zero values otherwise
validateCookie(cookie, clock) ==
  IF cookie.sigOk /\ cookie.ts > clock - MaxCookieAge
  THEN [value |-> cookie.value, timestamp |-> cookie.ts, ok |-> TRUE]
  ELSE [value |-> EmptyValue, timestamp |-> ZeroTime, ok |-> FALSE]

\* parseCookieValue: the session fields, or an error and a zero session
parseCookieValue(value) ==
  IF value.form = "session"
  THEN [email |-> value.email, user |-> value.user,
        access_token |-> value.token, err |-> FALSE]
  ELSE [email |-> "", user |-> "", access_token |-> "", err |-> TRUE]

\* buildCookieValue(email, cipher, access_token); the user is the local part
\* of the email
buildCookieValue(email, access_token) ==
  [form |-> "session", email |-> email, user |-> SplitN2(email, "@")[1],
   token |-> access_token]

\* the cookie value SetCookie(rw, req, user) writes after a manual sign-in
UserValue(user) == [form |-> "session", email |-> "", user |-> user, token |-> ""]

\* mutant: the three OAuth paths are tested before the skip-auth patterns
Branch_OauthFirst(c, path) ==
  IF path = robotsPath THEN "robots"
  ELSE IF path = pingPath THEN "ping"
  ELSE IF path = signInPath THEN "sign_in"
  ELSE IF path = oauthStartPath THEN "start"
  ELSE IF path = oauthCallbackPath THEN "callback"
  ELSE IF \E i \in 1..Len(c.compiledRegex) : MatchString(c.compiledRegex[i], path)
       THEN "skip"
  ELSE "auth"

\* ServeHTTP: the branch the tests on req.URL.Path select, in source order
Branch(c, path) ==
  IF path = robotsPath THEN "robots"
  ELSE IF path = pingPath THEN "ping"
  ELSE IF \E i \in 1..Len(c.compiledRegex) : MatchString(c.compiledRegex[i], path)
       THEN "skip"
  ELSE IF path = signInPath THEN "sign_in"
  ELSE IF path = oauthStartPath THEN "start"
  ELSE IF path = oauthCallbackPath THEN "callback"
  ELSE "auth"

\* a request arrives and ServeHTTP starts
ReceiveRequest(r) ==
  /\ rq.pc = "idle"
  /\ req' = r
  /\ rq' = [IdleRq EXCEPT !.pc = "route"]
  /\ UNCHANGED <<cfg, cacheVars>>

\* RobotsTxt
RobotsTxt ==
  /\ rq.pc = "route"
  /\ Branch(cfg, req.path) = "robots"
  /\ rq' = [rq EXCEPT !.pc = "done", !.branch = "robots", !.status = 200,
                      !.page = "robots"]
  /\ UNCHANGED <<cfg, req, cacheVars>>

\* PingPage
PingPage ==
  /\ rq.pc = "route"
  /\ Branch(cfg, req.path) = "ping"
  /\ rq' = [rq EXCEPT !.pc = "done", !.branch = "ping", !.status = 200,
                      !.page = "ping"]
  /\ UNCHANGED <<cfg, req, cacheVars>>

\* a skip-auth pattern matches: p.serveMux.ServeHTTP(rw, req)
SkipAuth ==
  /\ rq.pc = "route"
  /\ Branch(cfg, req.path) = "skip"
  /\ rq' = [rq EXCEPT !.pc = "done", !.branch = "skip", !.upstream = TRUE]
  /\ UNCHANGED <<cfg, req, cacheVars>>

\* ErrorPage(rw, code, title, message)
ErrorPage(f, code, title) ==
  [f EXCEPT !.pc = "done", !.status = code, !.page = "error", !.title = title]

\* SignInPage(rw, req, code): the cookie is cleared, then the page is written
SignInPage(f, code, clock) ==
  [f EXCEPT !.pc = "done", !.status = code, !.page = "sign_in",
            !.cookies = Append(@, ClearCookie(clock))]

\* GetRedirect: the rd form value, "/" when it is empty
GetRedirect(form, parseErr) ==
  IF parseErr THEN [redirect |-> "", err |-> TRUE]
  ELSE [redirect |-> IF form.rd = "" THEN "/" ELSE form.rd, err |-> FALSE]

\* ManualSignIn reaches the call of p.HtpasswdValidator
ManualSignInAsks(method, c, form) ==
  method = "POST" /\ c.HtpasswdValidator /\ form.username # ""

\* ManualSignIn, given the answer of the validator
ManualSignIn(method, c, form, vres) ==
  IF ManualSignInAsks(method, c, form) /\ vres = "true"
  THEN [user |-> form.username, ok |-> TRUE]
  ELSE [user |-> "", ok |-> FALSE]

\* ServeHTTP, req.URL.Path == signInPath
SignIn ==
  /\ rq.pc = "route"
  /\ Branch(cfg, req.path) = "sign_in"
  /\ \E vres \in ValidateResults :
       LET form == req.form
           parseErr == req.badForm
           gr == GetRedirect(form, parseErr)
           asks == ManualSignInAsks(req.method, cfg, form)
           ms == ManualSignIn(req.method, cfg, form, vres)
           f0 == [rq EXCEPT !.branch = "sign_in", !.form = form]
           f1 == [f0 EXCEPT !.calls = IF asks
                                      THEN Append(@, <<"HtpasswdValidator", form.username, vres>>)
                                      ELSE @]
       IN rq' = IF gr.err THEN ErrorPage(f0, 500, "Internal Error")
                ELSE IF asks /\ vres = "panic" THEN [f1 EXCEPT !.pc = "panicked"]
                ELSE IF ms.ok
                THEN [f1 EXCEPT !.pc = "done", !.user = ms.user, !.ok = TRUE,
                        !.cookies = Append(@, MakeCookie(UserValue(ms.user),
                                                         cfg.CookieExpire, now)),
                        !.status = 302, !.location = gr.redirect]
                ELSE SignInPage(f1, 200, now)
  /\ UNCHANGED <<cfg, req, cacheVars>>

\* GetLoginURL: the state parameter of the login URL
GetLoginURL(redirect) == IF HasSlashPrefix(redirect) THEN redirect ELSE Unset

\* ServeHTTP, req.URL.Path == oauthStartPath
OauthStart ==
  /\ rq.pc = "route"
  /\ Branch(cfg, req.path) = "start"
  /\ LET form == req.form
         parseErr == req.badForm
     IN
       LET gr == GetRedirect(form, parseErr)
           f0 == [rq EXCEPT !.branch = "start", !.form = form]
       IN rq' = IF gr.err THEN ErrorPage(f0, 500, "Internal Error")
                ELSE [f0 EXCEPT !.pc = "done", !.status = 302,
                        !.location = "<oauthLoginUrl>",
                        !.loginState = GetLoginURL(gr.redirect)]
  /\ UNCHANGED <<cfg, req, cacheVars>>

\* the answers of provider.GetEmailAddress drawn
ProviderEmails == {"e@x", "z@y"}

\* mutant: the error of provider.GetEmailAddress is dropped
redeemCode_IgnoreEmailErr(code, redeemed, emailOk, email) ==
  IF code = ""
  THEN [access_token |-> "", email |-> "", err |-> TRUE, calls |-> << >>]
  ELSE IF ~redeemed
  THEN [access_token |-> "", email |-> "", err |-> TRUE,
        calls |-> << <<"Redeem", code, FALSE>> >>]
  ELSE [access_token |-> "tok", email |-> IF emailOk THEN email ELSE "",
        err |-> FALSE,
        calls |-> << <<"Redeem", code, TRUE>>, <<"GetEmailAddress", "tok", emailOk>> >>]

\* redeemCode, given the answers of provider.Redeem and GetEmailAddress
redeemCode(code, redeemed, emailOk, email) ==
  IF code = ""
  THEN [access_token |-> "", email |-> "", err |-> TRUE, calls |-> << >>]
  ELSE IF ~redeemed
  THEN [access_token |-> "", email |-> "", err |-> TRUE,
        calls |-> << <<"Redeem", code, FALSE>> >>]
  ELSE IF ~emailOk
  THEN [access_token |-> "", email |-> "", err |-> TRUE,
        calls |-> << <<"Redeem", code, TRUE>>, <<"GetEmailAddress", "tok", FALSE>> >>]
  ELSE [access_token |-> "tok", email |-> email, err |-> FALSE,
        calls |-> << <<"Redeem", code, TRUE>>, <<"GetEmailAddress", "tok", TRUE>> >>]

\* mutant: the code is redeemed before the error parameter is looked at
OauthCallback_RedeemFirst ==
  /\ rq.pc = "route"
  /\ Branch(cfg, req.path) = "callback"
  /\ \E redeemed \in BOOLEAN, emailOk \in BOOLEAN, em \in ProviderEmails,
        allowed \in BOOLEAN :
       LET form == req.form
           parseErr == req.badForm
           f0 == [rq EXCEPT !.branch = "callback", !.form = form]
           rc == redeemCode(form.code, redeemed, emailOk, em)
           f1 == [f0 EXCEPT !.calls = @ \o rc.calls]
           redirect == IF form.state = "" THEN "/" ELSE form.state
           f2 == [f1 EXCEPT !.access_token = rc.access_token, !.email = rc.email,
                            !.calls = Append(@, <<"Validator", rc.email, allowed>>)]
       IN rq' = IF parseErr THEN ErrorPage(f0, 500, "Internal Error")
                ELSE IF rc.err THEN ErrorPage(f1, 500, "Internal Error")
                ELSE IF form.error # "" THEN ErrorPage(f1, 403, "Permission Denied")
                ELSE IF allowed
                THEN [f2 EXCEPT !.pc = "done",
                        !.cookies = Append(@, MakeCookie(
                            buildCookieValue(rc.email, rc.access_token),
                            cfg.CookieExpire, now)),
                        !.status = 302, !.location = redirect]
                ELSE ErrorPage(f2, 403, "Permission Denied")
  /\ UNCHANGED <<cfg, req, cacheVars>>

\* ServeHTTP, req.URL.Path == oauthCallbackPath
OauthCallback ==
  /\ rq.pc = "route"
  /\ Branch(cfg, req.path) = "callback"
  /\ \E redeemed \in BOOLEAN, emailOk \in BOOLEAN, em \in ProviderEmails,
        allowed \in BOOLEAN :
       LET form == req.form
           parseErr == req.badForm
           f0 == [rq EXCEPT !.branch = "callback", !.form = form]
           rc == redeemCode(form.code, redeemed, emailOk, em)
           f1 == [f0 EXCEPT !.calls = @ \o rc.calls]
           redirect == IF form.state = "" THEN "/" ELSE form.state
           f2 == [f1 EXCEPT !.access_token = rc.access_token, !.email = rc.email,
                            !.calls = Append(@, <<"Validator", rc.email, allowed>>)]
       IN rq' = IF parseErr THEN ErrorPage(f0, 500, "Internal Error")
                ELSE IF form.error # "" THEN ErrorPage(f0, 403, "Permission Denied")
                ELSE IF rc.err THEN ErrorPage(f1, 500, "Internal Error")
                ELSE IF allowed
                THEN [f2 EXCEPT !.pc = "done",
                        !.cookies = Append(@, MakeCookie(
                            buildCookieValue(rc.email, rc.access_token),
                            cfg.CookieExpire, now)),
                        !.status = 302, !.location = redirect]
                ELSE ErrorPage(f2, 403, "Permission Denied")
  /\ UNCHANGED <<cfg, req, cacheVars>>

\* mutant: the re-validation asks the Validator only
ProcessCookie_ValidatorOnly(cookie, c, clock, allowed, tokenOk) ==
  LET noCookie == ~cookie.present
      v == IF noCookie
           THEN [value |-> EmptyValue, timestamp |-> ZeroTime, ok |-> FALSE]
           ELSE validateCookie(cookie, clock)
      parsed == IF v.ok THEN parseCookieValue(v.value)
                ELSE [email |-> "", user |-> "", access_token |-> "", err |-> FALSE]
      err == noCookie \/ parsed.err
      expires == v.timestamp + c.CookieExpire
      refresh_threshold == clock + c.CookieRefresh
      revalidate == /\ ~err
                    /\ c.CookieRefresh # 0
                    /\ Unix(refresh_threshold) > Unix(expires)
      ok == IF err THEN FALSE
            ELSE IF revalidate THEN allowed
            ELSE v.ok
  IN [email |-> parsed.email, user |-> parsed.user,
      access_token |-> parsed.access_token, ok |-> ok,
      cookies |-> IF revalidate /\ ok
                  THEN << MakeCookie(v.value, c.CookieExpire, clock) >> ELSE << >>,
      calls |-> (IF noCookie THEN << >> ELSE << <<"validateCookie", "", v.ok>> >>)
                \o (IF v.ok THEN << <<"parseCookieValue", "", ~parsed.err>> >>
                    ELSE << >>)
                \o (IF revalidate THEN << <<"Validator", parsed.email, allowed>> >> ELSE << >>)
                \o (IF revalidate /\ allowed
                    THEN << <<"ValidateToken", parsed.access_token, tokenOk>> >> ELSE << >>)]

\* ProcessCookie, given the answers of p.Validator and provider.ValidateToken
ProcessCookie(cookie, c, clock, allowed, tokenOk) ==
  LET noCookie == ~cookie.present
      v == IF noCookie
           THEN [value |-> EmptyValue, timestamp |-> ZeroTime, ok |-> FALSE]
           ELSE validateCookie(cookie, clock)
      parsed == IF v.ok THEN parseCookieValue(v.value)
                ELSE [email |-> "", user |-> "", access_token |-> "", err |-> FALSE]
      err == noCookie \/ parsed.err
      expires == v.timestamp + c.CookieExpire
      refresh_threshold == clock + c.CookieRefresh
      revalidate == /\ ~err
                    /\ c.CookieRefresh # 0
                    /\ Unix(refresh_threshold) > Unix(expires)
      ok == IF err THEN FALSE
            ELSE IF revalidate THEN allowed /\ tokenOk
            ELSE v.ok
  IN [email |-> parsed.email, user |-> parsed.user,
      access_token |-> parsed.access_token, ok |-> ok,
      cookies |-> IF revalidate /\ ok
                  THEN << MakeCookie(v.value, c.CookieExpire, clock) >> ELSE << >>,
      calls |-> (IF noCookie THEN << >> ELSE << <<"validateCookie", "", v.ok>> >>)
                \o (IF v.ok THEN << <<"parseCookieValue", "", ~parsed.err>> >>
                    ELSE << >>)
                \o (IF revalidate THEN << <<"Validator", parsed.email, allowed>> >> ELSE << >>)
                \o (IF revalidate /\ allowed
                    THEN << <<"ValidateToken", parsed.access_token, tokenOk>> >> ELSE << >>)]

\* ServeHTTP: email, user, access_token, ok = p.ProcessCookie(rw, req)
ServeProcessCookie ==
  /\ rq.pc = "route"
  /\ Branch(cfg, req.path) = "auth"
  /\ \E allowed \in BOOLEAN, tokenOk \in BOOLEAN :
       LET r == ProcessCookie(req.cookie, cfg, now, allowed, tokenOk)
       IN rq' = [rq EXCEPT !.branch = "auth",
                   !.pc = IF r.ok THEN "forward" ELSE "basic",
                   !.email = r.email, !.user = r.user,
                   !.access_token = r.access_token, !.ok = r.ok,
                   !.pcOk = IF r.ok THEN "true" ELSE "false",
                   !.cookies = @ \o r.cookies, !.calls = @ \o r.calls]
  /\ UNCHANGED <<cfg, req, cacheVars>>

\* CheckBasicAuth up to the call of p.HtpasswdValidator: the pair to validate
BasicAuthPair(header, c) ==
  LET s == SplitN2(header, " ")
      b == IF Len(s) = 2 THEN DecodeString(s[2]) ELSE [text |-> "", err |-> TRUE]
      pair == SplitN2(b.text, ":")
  IN IF ~c.HtpasswdValidator THEN << >>
     ELSE IF Len(s) # 2 \/ s[1] # "Basic" THEN << >>
     ELSE IF b.err THEN << >>
     ELSE IF Len(pair) # 2 THEN << >>
     ELSE pair

\* CheckBasicAuth, given the answer of the validator
CheckBasicAuth(header, c, vres) ==
  LET pair == BasicAuthPair(header, c)
  IN IF pair # << >> /\ vres = "true"
     THEN [user |-> pair[1], ok |-> TRUE]
     ELSE [user |-> "", ok |-> FALSE]

\* ServeHTTP: user, ok = p.CheckBasicAuth(req)
ServeCheckBasicAuth ==
  /\ rq.pc = "basic"
  /\ \E vres \in ValidateResults :
       LET pair == BasicAuthPair(req.authorization, cfg)
           r == CheckBasicAuth(req.authorization, cfg, vres)
           f1 == [rq EXCEPT !.calls = IF pair # << >>
                                      THEN Append(@, <<"HtpasswdValidator", pair[1], vres>>)
                                      ELSE @]
       IN rq' = IF pair # << >> /\ vres = "panic"
                THEN [f1 EXCEPT !.pc = "panicked"]
                ELSE [f1 EXCEPT !.pc = IF r.ok THEN "forward" ELSE "deny",
                        !.user = r.user, !.ok = r.ok,
                        !.baOk = IF r.ok THEN "true" ELSE "false"]
  /\ UNCHANGED <<cfg, req, cacheVars>>

\* mutant: the denial does not return and falls through to the upstream
Deny_FallThrough ==
  /\ rq.pc = "deny"
  /\ rq' = [SignInPage(rq, 403, now) EXCEPT !.upstream = TRUE]
  /\ UNCHANGED <<cfg, req, cacheVars>>

\* ServeHTTP: p.SignInPage(rw, req, 403)
Deny ==
  /\ rq.pc = "deny"
  /\ rq' = SignInPage(rq, 403, now)
  /\ UNCHANGED <<cfg, req, cacheVars>>

\* ServeHTTP: the identity headers, then p.serveMux.ServeHTTP(rw, req)
Forward ==
  /\ rq.pc = "forward"
  /\ rq' = [rq EXCEPT !.pc = "done", !.upstream = TRUE,
              !.hdr = [basicUser |-> IF cfg.PassBasicAuth THEN rq.user ELSE Unset,
                       xUser |-> IF cfg.PassBasicAuth THEN rq.user ELSE Unset,
                       xEmail |-> IF cfg.PassBasicAuth THEN rq.email ELSE Unset,
                       xToken |-> IF cfg.PassAccessToken THEN rq.access_token
                                  ELSE Unset],
              !.gapAuth = IF rq.email = "" THEN rq.user ELSE rq.email]
  /\ UNCHANGED <<cfg, req, cacheVars>>

\* ServeHTTP has returned; the goroutine takes the next request
Finish ==
  /\ rq.pc = "done"
  /\ rq' = IdleRq
  /\ req' = NoRequest
  /\ UNCHANGED <<cfg, cacheVars>>

\* the OauthProxy of the runs that only call Validate
DefaultConfig ==
  [CookieExpire |-> CookieExpireTicks, CookieRefresh |-> 0,
   HtpasswdValidator |-> TRUE, PassBasicAuth |-> FALSE,
   PassAccessToken |-> FALSE, compiledRegex |-> << >>]

InitServeIdle ==
  /\ cfg = DefaultConfig
  /\ req = NoRequest
  /\ rq = IdleRq

Init == InitCache /\ InitServeIdle

\* the state after NewOauthProxy, for each configuration drawn
InitServe ==
  /\ cache_nil = TRUE /\ cache_m = EmptyMap
  /\ cache_mu = NoProc
  /\ now \in ServeTimes
  /\ val = [p \in Procs |-> IdleFrame]
  /\ lastTrue = [q \in Pairs |-> NoTime]
  /\ writer = [k \in {} |-> NoPair]
  /\ ncalls = 0
  /\ cfg \in Configs
  /\ req = NoRequest
  /\ rq = IdleRq

NextServe ==
  \/ \E r \in Requests(now) : ReceiveRequest(r)
  \/ RobotsTxt
  \/ PingPage
  \/ SkipAuth
  \/ SignIn
  \/ OauthStart
  \/ OauthCallback
  \/ ServeProcessCookie
  \/ ServeCheckBasicAuth
  \/ Deny
  \/ Forward
  \/ Finish

\* SpecServe: ServeHTTP serving one request after another
SpecServe == InitServe /\ [][NextServe]_vars


\* one step of goroutine p inside Validate
ValidateStep(p, limit) ==
  \/ \E u \in Users, pw \in Passwords : ValidateCall(p, u, pw, limit)
  \/ cachedValidateLock(p)
  \/ cachedValidateBody(p)
  \/ cachedValidateUnlock(p)
  \/ cachedValidateReturn(p)
  \/ DoProbe(p)
  \/ \E o \in ProbeOutcomes : ProbeResponse(p, o)
  \/ putValidateCacheLock(p)
  \/ putValidateCacheBody(p)
  \/ putValidateCacheUnlock(p)
  \/ ValidateReturn(p)

\* Spec: Validate called by one goroutine at a time, while the clock runs
Next ==
  \/ ValidateStep(1, MaxCalls)
  \/ Tick

Spec == Init /\ [][Next]_vars

\* SpecConc: Validate called by all goroutines concurrently, within one
\* clock tick
NextConc == \E p \in Procs : ValidateStep(p, MaxConcCalls)

SpecConc == Init /\ [][NextConc]_vars

(* ------------------------------ claims --------------------------------- *)

C2_DispatchPrecedence ==
  LET skip == \E i \in 1..Len(cfg.compiledRegex) : req.path \in cfg.compiledRegex[i]
      diag == req.path \in {robotsPath, pingPath}
  IN rq.pc \notin {"idle", "route"} =>
       /\ req.path = robotsPath => rq.branch = "robots"
       /\ req.path = pingPath => rq.branch = "ping"
       /\ (skip /\ ~diag) => rq.branch = "skip"
       /\ (~skip /\ req.path = signInPath) => rq.branch = "sign_in"
       /\ (~skip /\ req.path = oauthStartPath) => rq.branch = "start"
       /\ (~skip /\ req.path = oauthCallbackPath) => rq.branch = "callback"
       /\ (~skip /\ req.path \in {"/static", "/app"}) => rq.branch = "auth"
       /\ rq.branch = "skip" =>
            /\ rq.upstream /\ rq.status = 0
            /\ rq.calls = << >> /\ rq.cookies = << >>
            /\ rq.hdr = NoHeaders /\ rq.gapAuth = Unset
            /\ rq.pcOk = "none" /\ rq.baOk = "none"
       /\ rq.branch \in {"robots", "ping"} =>
            (rq.status = 200 /\ ~rq.upstream /\ rq.calls = << >>)
       /\ rq.branch # "auth" => (rq.pcOk = "none" /\ rq.baOk = "none")
       /\ rq.baOk # "none" => rq.pcOk = "false"
       /\ (rq.branch = "auth" /\ rq.status = 403) =>
            (rq.pcOk = "false" /\ rq.baOk = "false")
       /\ ~(rq.upstream /\ rq.status # 0)

\* C2 witness: /oauth2/callback matched a skip-auth pattern and was forwarded,
\* although the request carried a session cookie and Basic credentials
C2_Witness ==
  /\ rq.pc = "done" /\ rq.branch = "skip" /\ rq.upstream
  /\ req.path = oauthCallbackPath
  /\ req.cookie.present /\ req.authorization = "Basic YTpj"

\* C10: a request whose session cookie fails verification is handled like a
\* request without a cookie, for every CookieRefresh: ProcessCookie returns
\* ok = false, calls neither Validator nor ValidateToken, writes no cookie, and
\* never accepts a session with empty email and empty user.
C10_InvalidCookieIsNoCookie ==
  /\ ( /\ req.cookie.present
       /\ ~validateCookie(req.cookie, now).ok
       /\ rq.pcOk # "none" )
     => /\ rq.pcOk = "false"
        /\ \A i \in 1..Len(rq.calls) :
             rq.calls[i][1] \notin {"Validator", "ValidateToken"}
        /\ rq.pc = "basic" => rq.cookies = << >>
  /\ rq.pcOk = "true" => ~(rq.email = "" /\ rq.user = "")

\* C3 (as stated): after Validate(u, p) has returned true, every later
\* Validate(u, p) made less than one minute afterwards, with no cache reset in
\* between, returns true and sends no probe; a Validate of a pair that is not
\* in the cache sends exactly one probe.
C3_HitWithinMinuteOfTrueReturn ==
  \A p \in Procs :
    val[p].pc = "done" =>
      /\ ( /\ val[p].prevTrue # NoTime
           /\ val[p].nowRead < val[p].prevTrue + Minute
           /\ ~val[p].resetSeen )
         => (val[p].ret /\ val[p].probes = 0)
      /\ val[p].t = ZeroTime => val[p].probes = 1

\* C3 (amended): once a probe answered 200 has written the entry of (u, p) at
\* time w, every later Validate(u, p) that reads the clock earlier than
\* w + 1 minute, with no cache reset in between, returns true and sends no
\* probe (a cache hit does not renew the entry); a Validate of a pair that is
\* not in the cache sends exactly one probe.
C3_HitWithinMinuteOfPut ==
  \A p \in Procs :
    /\ ( /\ val[p].nowRead # NoTime
         /\ val[p].entryAtCall # NoTime
         /\ val[p].nowRead < val[p].entryAtCall + Minute
         /\ ~val[p].resetSeen )
       => (val[p].pc = "done" /\ val[p].ret /\ val[p].probes = 0)
    /\ (val[p].pc = "done" /\ val[p].t = ZeroTime) => val[p].probes = 1

\* C3 witness: a repeat call inside the window has returned true from the
\* cache, and the entry it used was already one tick old
C3_Witness ==
  \E p \in Procs :
    /\ val[p].pc = "done" /\ val[p].ret /\ val[p].probes = 0
    /\ val[p].entryAtCall # NoTime
    /\ val[p].nowRead > val[p].entryAtCall

\* C4: a Validate whose probe is answered with a non-200 status returns false
\* and leaves no usable entry for the pair, so the next attempt probes again;
\* an attempt whose probe is answered 200 returns true.
C4_FailedValidationNotCached ==
  \A p \in Procs :
    val[p].pc = "done" =>
      /\ val[p].res \in {"401", "redirect"} =>
           /\ ~val[p].ret
           /\ val[p].probes = 1
           /\ ~IsFresh(Lookup(cache_m, KeyOf(p)), now)
           /\ KeyOf(p) \in DOMAIN cache_m => cache_m[KeyOf(p)] = val[p].entryAtCall
      /\ val[p].res = "200" => val[p].ret

\* C4 witness: a failed attempt for a pair whose earlier entry has expired
C4_Witness ==
  \E p \in Procs :
    /\ val[p].pc = "done" /\ val[p].res = "401" /\ ~val[p].ret
    /\ KeyOf(p) \in DOMAIN cache_m

\* C5: when the probe fails at the transport level (an error and no
\* response), Validate returns false and does not crash.
C5_TransportFailureReturnsFalse ==
  \A p \in Procs :
    val[p].res = "error" => (val[p].pc = "done" /\ ~val[p].ret)

\* C6: Validate(u, p) returns true without probing only if that exact pair was
\* itself validated successfully within the last minute.
C6_HitOnlyForExactPair ==
  \A p \in Procs :
    (val[p].pc = "done" /\ val[p].ret /\ val[p].probes = 0) =>
      val[p].by = PairOf(p)

\* C7 (as stated): in every reachable state the cache holds at most 100
\* entries.
C7_AtMostCeiling == Len_m <= MaxCacheLen

\* C7 (amended): the cache holds at most 100 + k entries, k the number of
\* goroutines calling Validate (101 for sequential calls): putValidateCache
\* inserts past the ceiling, and the full reset happens at the next
\* cachedValidate that finds more than 100 entries.
C7_BoundedOvershoot ==
  /\ Len_m <= MaxCacheLen + Cardinality(Procs)
  /\ \A p \in Procs : val[p].pc = "cv_unlock" => Len_m <= MaxCacheLen

\* C7 witness: concurrent insertions have taken the cache to 100 + k entries
C7_Witness == Len_m = MaxCacheLen + Cardinality(Procs)

\* C8: when the cache holds more than 100 entries, the next cachedValidate
\* empties it completely before looking up, so that call is a miss and
\* Validate probes again, even for a pair validated less than a minute ago.
C8_OverflowResetsAll ==
  \A p \in Procs :
    val[p].over =>
      /\ val[p].t = ZeroTime
      /\ val[p].pc = "cv_unlock" => cache_m = EmptyMap
      /\ val[p].pc \notin {"cv_unlock", "cv_ret", "probe"} => val[p].probes = 1

\* C8 witness: a pair with a fresh entry was probed again after the reset
C8_Witness ==
  \E p \in Procs :
    val[p].over /\ val[p].freshAtReset /\ val[p].pc = "done" /\ val[p].probes = 1

\* C9: cachedValidate hits exactly when lastValidatedAt + 1 minute is strictly
\* later than now; at or after the boundary Validate probes again and a
\* successful probe overwrites the entry with the current time.
C9_ExpiryBoundary ==
  \A p \in Procs :
    /\ val[p].nowRead # NoTime =>
         ((val[p].pc = "done" /\ val[p].probes = 0 /\ val[p].ret)
            <=> val[p].nowRead - val[p].t < Minute)
    /\ val[p].pc = "put_unlock" =>
         /\ KeyOf(p) \in DOMAIN cache_m
         /\ cache_m[KeyOf(p)] >= val[p].nowRead
         /\ cache_m[KeyOf(p)] <= now
         /\ cache_m[KeyOf(p)] >= val[p].t + Minute

\* C9 witness: an entry exactly one minute old was probed again and
\* overwritten
C9_Witness ==
  \E p \in Procs :
    /\ val[p].pc = "put_unlock"
    /\ val[p].t # ZeroTime
    /\ val[p].nowRead = val[p].t + Minute
    /\ cache_m[KeyOf(p)] > val[p].t

\* C11: ProcessCookie re-validates a verified session exactly when
\* CookieRefresh is non-zero and now + CookieRefresh, in whole seconds, is
\* strictly later than issuedAt + CookieExpire: a session issued one second
\* before now - E + R is stale, one issued at now - E + R or one second after
\* it is not, and with CookieRefresh = 0 no session is re-validated or
\* re-issued.
C11_RefreshThreshold ==
  ( /\ rq.pcOk # "none"
    /\ req.cookie.present
    /\ validateCookie(req.cookie, now).ok
    /\ ~parseCookieValue(req.cookie.value).err )
  => LET E == cfg.CookieExpire
         R == cfg.CookieRefresh
         issuedAt == req.cookie.ts
         revalidated == \E i \in 1..Len(rq.calls) : rq.calls[i][1] = "Validator"
         reissued == \E i \in 1..Len(rq.cookies) : rq.cookies[i].signed
     IN /\ revalidated <=>
             ( /\ R # 0
               /\ (now + R) \div TicksPerSecond > (issuedAt + E) \div TicksPerSecond )
        /\ (R # 0 /\ issuedAt = now - E + R - TicksPerSecond) => revalidated
        /\ issuedAt = now - E + R => ~revalidated
        /\ issuedAt = now - E + R + TicksPerSecond => ~revalidated
        /\ R = 0 => (~revalidated /\ ~reissued)
        /\ reissued => revalidated

\* C11 witness: a session issued one second before the threshold has been
\* re-validated
C11_Witness ==
  /\ rq.pcOk # "none"
  /\ cfg.CookieRefresh # 0
  /\ validateCookie(req.cookie, now).ok
  /\ req.cookie.ts = now - cfg.CookieExpire + cfg.CookieRefresh - TicksPerSecond
  /\ \E i \in 1..Len(rq.calls) : rq.calls[i][1] = "Validator"

\* C12: for a stale but verified session ProcessCookie returns ok exactly when
\* Validator(email) and provider.ValidateToken(access_token) both return
\* true; on success it sets the session cookie again with the same payload
\* and a fresh timestamp; on failure it sets no cookie and the request goes on
\* unauthenticated, to the Basic-Auth fallback and then the 403 denial.
C12_StaleSessionRevalidation ==
  LET validatorCalls == {i \in 1..Len(rq.calls) : rq.calls[i][1] = "Validator"}
      tokenCalls == {i \in 1..Len(rq.calls) : rq.calls[i][1] = "ValidateToken"}
      issued == {i \in 1..Len(rq.cookies) : rq.cookies[i].signed}
  IN ( /\ rq.pcOk # "none"
       /\ req.cookie.present
       /\ validateCookie(req.cookie, now).ok
       /\ ~parseCookieValue(req.cookie.value).err
       /\ validatorCalls # {} )
     => /\ \A i \in validatorCalls : rq.calls[i][2] = req.cookie.value.email
        /\ \A i \in tokenCalls : rq.calls[i][2] = req.cookie.value.token
        /\ rq.pcOk = "true" <=>
             ( /\ \E i \in validatorCalls : rq.calls[i][3]
               /\ \E i \in tokenCalls : rq.calls[i][3] )
        /\ rq.pcOk = "true" =>
             /\ rq.pc \in {"forward", "done"}
             /\ Len(rq.cookies) = 1
             /\ rq.cookies[1].signed
             /\ rq.cookies[1].value = req.cookie.value
             /\ rq.cookies[1].ts = now
             /\ rq.cookies[1].expires = now + cfg.CookieExpire
             /\ rq.pc = "done" => rq.upstream
        /\ rq.pcOk = "false" =>
             /\ issued = {}
             /\ rq.pc \in {"basic", "forward", "deny", "done", "panicked"}
             /\ rq.pc = "basic" => (rq.cookies = << >> /\ rq.baOk = "none")
             /\ rq.pc = "forward" => rq.baOk = "true"
             /\ rq.pc = "deny" => rq.baOk = "false"
             /\ rq.pc = "done" =>
                  \/ rq.baOk = "true" /\ rq.upstream
                  \/ rq.baOk = "false" /\ rq.status = 403 /\ ~rq.upstream

\* C12 witness: a stale session was re-validated and its cookie set again
\* with a later timestamp
C12_Witness ==
  /\ rq.pcOk = "true"
  /\ validateCookie(req.cookie, now).ok
  /\ \E i \in 1..Len(rq.calls) : rq.calls[i][1] = "ValidateToken" /\ rq.calls[i][3]
  /\ Len(rq.cookies) = 1
  /\ rq.cookies[1].value = req.cookie.value
  /\ rq.cookies[1].ts > req.cookie.ts

\* C13 (as stated): a request to /oauth2/callback with a non-empty error
\* parameter is answered with a 403 error page, calls neither provider.Redeem
\* nor provider.GetEmailAddress nor the Validator, and sets no session cookie,
\* whatever code and state it carries.
C13_ErrorParamAnswered403 ==
  ( /\ req.path = oauthCallbackPath
    /\ req.form.error # ""
    /\ rq.pc = "done" )
  => /\ rq.status = 403 /\ rq.page = "error"
     /\ \A i \in 1..Len(rq.calls) :
          rq.calls[i][1] \notin {"Redeem", "GetEmailAddress", "Validator"}
     /\ rq.cookies = << >>

\* C13 (amended): a request to /oauth2/callback with a non-empty error
\* parameter never calls provider.Redeem, provider.GetEmailAddress or the
\* Validator and never sets a cookie; it is answered with the 403
\* "Permission Denied" error page when its path matches no skip-auth pattern
\* and its form parses, with the 500 error page when ParseForm fails, and it
\* is forwarded upstream when a skip-auth pattern matches the path.
C13_ErrorParamNeverRedeems ==
  ( /\ req.path = oauthCallbackPath
    /\ req.form.error # ""
    /\ rq.pc \notin {"idle", "route"} )
  => /\ rq.pc = "done"
     /\ \A i \in 1..Len(rq.calls) :
          rq.calls[i][1] \notin {"Redeem", "GetEmailAddress", "Validator"}
     /\ rq.cookies = << >>
     /\ rq.branch \in {"callback", "skip"}
     /\ (rq.branch = "callback" /\ ~req.badForm) =>
          /\ rq.status = 403 /\ rq.page = "error"
          /\ rq.title = "Permission Denied"
          /\ ~rq.upstream
     /\ (rq.branch = "callback" /\ req.badForm) =>
          (rq.status = 500 /\ rq.page = "error" /\ ~rq.upstream)
     /\ rq.branch = "skip" => (rq.upstream /\ rq.status = 0)

\* C13 witness: a callback carrying an error next to a code and a state was
\* answered 403
C13_Witness ==
  /\ rq.pc = "done" /\ rq.branch = "callback"
  /\ req.form.error # "" /\ req.form.code # "" /\ req.form.state # ""
  /\ ~req.badForm
  /\ rq.status = 403

\* C14: on /oauth2/callback without an error parameter a session cookie is set
\* and a 302 redirect sent only when the code was redeemed (non-empty code,
\* Redeem and GetEmailAddress without error) and Validator(email) is true; a
\* failed redemption gives the 500 page and a failed predicate the 403
\* "Permission Denied" page, both without a cookie; the redirect goes to the
\* state parameter, or to "/" when state is empty.
C14_CallbackOutcome ==
  LET succeeded(name) ==
        \E i \in 1..Len(rq.calls) : rq.calls[i][1] = name /\ rq.calls[i][3]
      called(name) == \E i \in 1..Len(rq.calls) : rq.calls[i][1] = name
      redeemOk == req.form.code # "" /\ succeeded("Redeem") /\ succeeded("GetEmailAddress")
  IN ( /\ req.path = oauthCallbackPath
       /\ req.form.error = ""
       /\ rq.pc = "done" )
     => /\ (rq.cookies # << >> \/ rq.status = 302) =>
             /\ redeemOk /\ succeeded("Validator")
             /\ Len(rq.cookies) = 1 /\ rq.cookies[1].signed
             /\ rq.cookies[1].value.email = rq.email
             /\ rq.cookies[1].value.token = rq.access_token
             /\ rq.cookies[1].expires = now + cfg.CookieExpire
             /\ rq.status = 302
             /\ rq.location = IF req.form.state = "" THEN "/" ELSE req.form.state
             /\ \A i \in 1..Len(rq.calls) :
                  rq.calls[i][1] = "Validator" => rq.calls[i][2] = rq.email
        /\ (rq.branch = "callback" /\ ~req.badForm /\ ~redeemOk) =>
             /\ rq.status = 500 /\ rq.page = "error"
             /\ rq.cookies = << >>
             /\ ~called("Validator")
        /\ (rq.branch = "callback" /\ redeemOk /\ ~succeeded("Validator")) =>
             /\ called("Validator")
             /\ rq.status = 403 /\ rq.page = "error"
             /\ rq.title = "Permission Denied"
             /\ rq.cookies = << >>
        /\ (rq.branch = "callback" /\ redeemOk /\ succeeded("Validator")) =>
             (rq.status = 302 /\ rq.cookies # << >>)
        /\ ~rq.upstream => rq.status \in {302, 403, 500}

\* C14 witness: a redeemed code of an allowed account set the cookie and
\* redirected to the state parameter
C14_Witness ==
  /\ rq.pc = "done" /\ rq.branch = "callback"
  /\ rq.status = 302 /\ rq.location = "/app"
  /\ Len(rq.cookies) = 1 /\ rq.cookies[1].value.email = "z@y"

\* C15: on /oauth2/sign_in (the form parsed) a session cookie is issued and a
\* 302 redirect to the return path rd, "/" by default, is sent only when the
\* request is a POST, a delegated validator is configured, the username is
\* not empty and the validator accepts (username, password); in every other
\* case the sign-in page is rendered with status 200 and no session is
\* issued; an empty username never reaches the validator.
C15_ManualSignInOutcome ==
  LET issued == \E i \in 1..Len(rq.cookies) : rq.cookies[i].signed
      accepted == \E i \in 1..Len(rq.calls) :
                    /\ rq.calls[i][1] = "HtpasswdValidator"
                    /\ rq.calls[i][2] = req.form.username
                    /\ rq.calls[i][3] = "true"
      success == /\ req.method = "POST"
                 /\ cfg.HtpasswdValidator
                 /\ req.form.username # ""
                 /\ accepted
  IN ( /\ req.path = signInPath
       /\ rq.branch = "sign_in"
       /\ ~req.badForm
       /\ rq.pc \notin {"idle", "route"} )
     => /\ \A i \in 1..Len(rq.calls) : rq.calls[i][2] # ""
        /\ (issued \/ rq.status = 302) => success
        /\ success =>
             /\ rq.pc = "done" /\ rq.status = 302
             /\ rq.location = IF req.form.rd = "" THEN "/" ELSE req.form.rd
             /\ Len(rq.cookies) = 1 /\ rq.cookies[1].signed
             /\ rq.cookies[1].value.user = req.form.username
        /\ ~success =>
             /\ rq.pc = "done"
             /\ rq.status = 200 /\ rq.page = "sign_in"
             /\ ~issued

\* C16: on /oauth2/start the login URL carries the return path as its state
\* parameter only when the path is a same-site relative path; an absolute or
\* scheme-relative target (//other.host/x) is never placed in state, so the
\* redirect that ends a handshake started here stays on the proxy.
C16_StateOnlySameSite ==
  LET sameSite(s) == /\ Len(s) >= 1
                     /\ SubSeq(s, 1, 1) = "/"
                     /\ ~(Len(s) >= 2 /\ SubSeq(s, 2, 2) = "/")
  IN ( /\ rq.branch = "start"
       /\ rq.pc = "done"
       /\ rq.status = 302 )
     => /\ rq.loginState # Unset => sameSite(rq.loginState)
        /\ ~sameSite(IF req.form.rd = "" THEN "/" ELSE req.form.rd)
             => rq.loginState = Unset

\* SpecServeLive: SpecServe, with every started ServeHTTP call running on for
\* as long as it has a step to take (the goroutine of a request is scheduled
\* and each external call returns)
SpecServeLive == InitServe /\ [][NextServe]_vars /\ WF_vars(NextServe)

\* C17: every request that enters ServeHTTP ends in exactly one response
\* outcome, a page with a status code, a redirect or an upstream forward, on
\* every failure path; no path leaves the request without a response.
C17_EveryRequestAnswered ==
  /\ [](rq.pc = "done" =>
          \/ rq.upstream /\ rq.status = 0 /\ rq.page = ""
          \/ ~rq.upstream /\ rq.status = 302 /\ rq.page = "" /\ rq.location # ""
          \/ ~rq.upstream /\ rq.status \in {200, 403, 500} /\ rq.page # "")
  /\ (rq.pc = "route") ~> (rq.pc = "done")

\* C18: ProcessCookie parses the payload of a cookie only after validateCookie
\* has accepted its signature and timestamp; when verification fails or
\* parsing returns an error, ok is false and the email, user and access token
\* of that cookie are not used as the identity of the request.
C18_VerifyThenParse ==
  ( /\ rq.pcOk # "none"
    /\ req.cookie.present )
  => /\ \A i \in 1..Len(rq.calls) :
          rq.calls[i][1] = "parseCookieValue" =>
            /\ i > 1
            /\ rq.calls[i - 1][1] = "validateCookie"
            /\ rq.calls[i - 1][3]
     /\ ( \/ ~validateCookie(req.cookie, now).ok
          \/ parseCookieValue(req.cookie.value).err )
        => /\ rq.pcOk = "false"
           /\ rq.email = "" /\ rq.access_token = ""
           /\ rq.pc = "basic" => rq.user = ""
           /\ rq.upstream =>
                /\ rq.hdr.xEmail \in {Unset, ""}
                /\ rq.hdr.xToken \in {Unset, ""}
                /\ rq.baOk = "true"

\* SpecConcLive: SpecConc, with every goroutine inside Validate scheduled: a
\* goroutine waiting for the mutex gets it if it is free again and again
\* (sync.Mutex hands the lock to waiters), and its other steps are taken once
\* they can be. A probe that has left need never be answered, and no
\* goroutine need ever call Validate.
SpecConcLive ==
  /\ Init
  /\ [][NextConc]_vars
  /\ \A p \in Procs :
       /\ SF_vars(cachedValidateLock(p))
       /\ SF_vars(putValidateCacheLock(p))
       /\ WF_vars(\/ cachedValidateBody(p)
                  \/ cachedValidateUnlock(p)
                  \/ cachedValidateReturn(p)
                  \/ DoProbe(p)
                  \/ putValidateCacheBody(p)
                  \/ putValidateCacheUnlock(p)
                  \/ ValidateReturn(p))

\* C19: the cache mutex is never held while a probe is in flight: the holder
\* is always inside cachedValidate or putValidateCache; with a Validate call
\* blocked for ever in its probe, every other call still gets the lock,
\* completes its lookup and returns on a hit (or sends its own probe), and a
\* call that was answered 200 completes its write; no interleaving deadlocks
\* or writes to a cache that was not initialised.
C19_LockNotHeldDuringProbe ==
  /\ [](\A p \in Procs :
          /\ cache_mu = p <=>
               val[p].pc \in {"cv_body", "cv_unlock", "put_body", "put_unlock"}
          /\ val[p].pc \in {"probe", "await"} => cache_mu # p
          /\ val[p].pc = "put_body" => ~cache_nil
          /\ val[p].pc = "panicked" => val[p].res = "error")
  /\ \A p \in Procs :
       /\ (val[p].pc = "cv_lock") ~> (val[p].pc \in {"done", "await"})
       /\ (val[p].pc = "put_lock") ~> (val[p].pc = "done" /\ val[p].ret)

\* C19 witness: while the probe of one goroutine is in flight, another
\* goroutine holds the mutex and is about to write its entry
C19_Witness ==
  \E p \in Procs, q \in Procs :
    /\ p # q
    /\ val[p].pc = "await"
    /\ cache_mu = q
    /\ val[q].pc = "put_body"

\* C20: a request authenticated by the Basic-Auth fallback (ProcessCookie
\* returned ok = false, CheckBasicAuth ok = true) is forwarded with the
\* identity of the Basic-Auth user only: the forwarded email and access token
\* are empty and GAP-Auth is the username, also when the request carried a
\* session cookie that was rejected; in general GAP-Auth is the email when it
\* is not empty and the username otherwise.
C20_BasicAuthIdentityOnly ==
  LET pair == BasicAuthPair(req.authorization, cfg)
  IN /\ ( /\ rq.pc = "done"
          /\ rq.pcOk = "false"
          /\ rq.baOk = "true" )
        => /\ rq.upstream
           /\ pair # << >>
           /\ rq.user = pair[1]
           /\ rq.email = "" /\ rq.access_token = ""
           /\ rq.gapAuth = pair[1]
           /\ rq.hdr.xEmail \in {Unset, ""}
           /\ rq.hdr.xToken \in {Unset, ""}
           /\ rq.hdr.xUser \in {Unset, pair[1]}
           /\ cfg.PassBasicAuth => (rq.hdr.xUser = pair[1] /\ rq.hdr.xEmail = "")
           /\ cfg.PassAccessToken => rq.hdr.xToken = ""
     /\ (rq.pc = "done" /\ rq.branch = "auth" /\ rq.upstream)
        => rq.gapAuth = IF rq.email # "" THEN rq.email ELSE rq.user
====
